---- MODULE Spec2Model ----
(***************************************************************************)
(* Model of lib/transports/WebSocketTransport.js: a WebSocket transport    *)
(* that reconnects through a `retry` operation.  The state is the          *)
(* transport object (_closed, _ws), every W3CWebSocket it created, every   *)
(* retry operation it created (with the wasConnected flag captured by the  *)
(* operation's callbacks), the public events emitted so far and the        *)
(* effects of the last handler that ran.                                   *)
(***************************************************************************)
EXTENDS Integers, Sequences, FiniteSets, TLC

(* ------------------------------ bounds -------------------------------- *)
MaxSockets == 3      \* sockets created over the transport's lifetime
MaxStale == 1        \* socket events a W3CWebSocket does not deliver
MaxRetries == 1      \* largest options.retry.retries tried

(* ------------------------- program constants -------------------------- *)
ServerClosedCode == 4000

(* event.code of a socket close event: the reserved code and an abnormal  *)
(* closure.                                                               *)
Codes == {ServerClosedCode, 1006}
Events == {"open", "message", "disconnected", "close"}

(* The entry of fx that stands for this.emit(ev).                         *)
EmitFx ==
    [ev \in Events |->
        CASE ev = "open" -> "emit:open"
          [] ev = "message" -> "emit:message"
          [] ev = "disconnected" -> "emit:disconnected"
          [] ev = "close" -> "emit:close"]

(* The events that mark the connection's lifecycle; they are counted.     *)
Lifecycle == Events \ {"message"}

VARIABLES
    closed,           \* this._closed
    closedBy,         \* which assignment set _closed: "close()", "code4000", "exhausted"
    ws,               \* this._ws: index into sockets
    sockets,          \* every W3CWebSocket created: [op, rs, attached]
    ops,              \* every retry operation created, with its wasConnected
    emitted,          \* lifecycle events emitted so far, per event name
    fx,               \* effects of the last handler, in program order
    call,             \* the last handler invoked and its inputs
    stale,            \* second opens and events after close delivered
    retries           \* (options.retry || DEFAULT_RETRY_OPTIONS).retries

vars == <<closed, closedBy, ws, sockets, ops, emitted, fx, call, stale,
          retries>>

(* The part of the state the handlers read and write, as one record.      *)
State ==
    [closed |-> closed, closedBy |-> closedBy, ws |-> ws, sockets |-> sockets,
     ops |-> ops, emitted |-> emitted, fx |-> fx]

Effect(s, e) == [s EXCEPT !.fx = Append(@, e)]

(* Inputs of a handler that come from its environment: whether a listener *)
(* of the events it emits calls close(), whether the socket's close()     *)
(* throws, and whether operation.stop() cancels the timer of the last     *)
(* retry() (the `retry` releases differ in this).                         *)
Inputs == [re : BOOLEAN, throws : BOOLEAN, cancels : BOOLEAN]

(* ----------------------- the retry operation -------------------------- *)
(* retry.operation(options): `retries` timeouts left, no timer pending.   *)
retry_operation ==
    [wasConnected |-> FALSE, timeouts |-> retries,
     timers |-> 0, lastPending |-> FALSE, stopped |-> FALSE]

(* operation.retry(true): FALSE when no timeout is left, otherwise one    *)
(* timeout is consumed and a timer that runs the next attempt is set.     *)
CanRetry(s, o) == s.ops[o].timeouts > 0

operation_retry(s, o) ==
    IF CanRetry(s, o)
    THEN Effect([s EXCEPT !.ops[o].timeouts = @ - 1,
                          !.ops[o].timers = @ + 1,
                          !.ops[o].lastPending = TRUE], "setTimeout")
    ELSE s

(* operation.stop(): the remaining timeouts are dropped; the timer set by *)
(* the last retry() is cancelled only by the `retry` releases that keep a *)
(* reference to it (in.cancels).                                          *)
operation_stop(s, o, in) ==
    LET s1 == Effect([s EXCEPT !.ops[o].timeouts = 0,
                               !.ops[o].stopped = TRUE], "stop")
    IN  IF in.cancels /\ s.ops[o].lastPending
        THEN Effect([s1 EXCEPT !.ops[o].timers = @ - 1,
                               !.ops[o].lastPending = FALSE], "clearTimeout")
        ELSE s1

(* --------------------------- WebSocketTransport ----------------------- *)
RECURSIVE emit(_, _, _), close(_, _)

(* The assignment `this._closed = true` of close() and of onclose.        *)
SetClosed(s, by) ==
    Effect([s EXCEPT !.closed = TRUE, !.closedBy = by], "closed=true")

(* this.emit(ev): the listeners run synchronously.  With in.re one of     *)
(* them calls close() the first time it runs.                             *)
emit(s, ev, in) ==
    LET s0 == IF ev \in Lifecycle
              THEN [s EXCEPT !.emitted[ev] = @ + 1]
              ELSE s
        s1 == Effect(s0, EmitFx[ev])
    IN
    IF in.re
    THEN close(Effect(s1, "listener:close()"), [in EXCEPT !.re = FALSE])
    ELSE s1

(* close() tearing the socket down before it flags and announces closure. *)
close_teardown_first(s, in) ==
    IF s.closed
    THEN s
    ELSE LET s1 == Effect([s EXCEPT !.sockets[s.ws].attached = FALSE],
                          "detach")
             s2 == IF in.throws
                   THEN Effect(Effect(s1, "ws.close:throw"), "log:error")
                   ELSE Effect([s1 EXCEPT !.sockets[s1.ws].rs =
                                    IF @ = "closed" THEN @ ELSE "closing"],
                               "ws.close")
         IN  emit(SetClosed(s2, "close()"), "close", in)

(* close() that tests the socket's callbacks instead of the _closed flag. *)
close_guard_on_socket(s, in) ==
    IF ~s.sockets[s.ws].attached
    THEN s
    ELSE LET s1 == SetClosed(s, "close()")
             s2 == emit(s1, "close", in)
             s3 == Effect([s2 EXCEPT !.sockets[s2.ws].attached = FALSE],
                          "detach")
         IN  IF in.throws
             THEN Effect(Effect(s3, "ws.close:throw"), "log:error")
             ELSE Effect([s3 EXCEPT !.sockets[s3.ws].rs =
                              IF @ = "closed" THEN @ ELSE "closing"],
                         "ws.close")

(* close() that emits `close` before it sets the _closed flag.            *)
close_emit_before_flag(s, in) ==
    IF s.closed
    THEN s
    ELSE LET s1 == emit(s, "close", in)
             s2 == SetClosed(s1, "close()")
             s3 == Effect([s2 EXCEPT !.sockets[s2.ws].attached = FALSE],
                          "detach")
         IN  IF in.throws
             THEN Effect(Effect(s3, "ws.close:throw"), "log:error")
             ELSE Effect([s3 EXCEPT !.sockets[s3.ws].rs =
                              IF @ = "closed" THEN @ ELSE "closing"],
                         "ws.close")

(* close() without the try/catch around the teardown: the socket's error  *)
(* leaves close() as an exception.                                        *)
close_nocatch(s, in) ==
    IF s.closed
    THEN s
    ELSE LET s1 == SetClosed(s, "close()")
             s2 == emit(s1, "close", in)
             s3 == Effect([s2 EXCEPT !.sockets[s2.ws].attached = FALSE],
                          "detach")
         IN  IF in.throws
             THEN Effect(Effect(s3, "ws.close:throw"), "throw")
             ELSE Effect([s3 EXCEPT !.sockets[s3.ws].rs =
                              IF @ = "closed" THEN @ ELSE "closing"],
                         "ws.close")

close(s, in) ==
    IF s.closed
    THEN s
    ELSE LET s1 == SetClosed(s, "close()")
             s2 == emit(s1, "close", in)
             s3 == Effect([s2 EXCEPT !.sockets[s2.ws].attached = FALSE],
                          "detach")
         IN  IF in.throws
             THEN Effect(Effect(s3, "ws.close:throw"), "log:error")
             ELSE Effect([s3 EXCEPT !.sockets[s3.ws].rs =
                              IF @ = "closed" THEN @ ELSE "closing"],
                         "ws.close")

(* The attempt function without the _closed test.                         *)
attempt_noguard(s, o, in) ==
    Effect([s EXCEPT
               !.sockets = Append(@, [op |-> o, rs |-> "connecting",
                                      attached |-> TRUE]),
               !.ws = Len(s.sockets) + 1], "new:ws")

(* The function given to operation.attempt(): one connection attempt.     *)
attempt(s, o, in) ==
    IF s.closed
    THEN operation_stop(s, o, in)
    ELSE Effect([s EXCEPT
                    !.sockets = Append(@, [op |-> o, rs |-> "connecting",
                                           attached |-> TRUE]),
                    !.ws = Len(s.sockets) + 1], "new:ws")

(* _setWebSocket() carrying the previous operation's budget over instead  *)
(* of creating a fresh operation.                                         *)
_setWebSocket_keep_budget(s, in) ==
    LET prev == s.ops[Len(s.ops)].timeouts
        s1 == [s EXCEPT !.ops = Append(@, [retry_operation EXCEPT
                                              !.timeouts = prev])]
    IN  attempt(s1, Len(s1.ops), in)

_setWebSocket(s, in) ==
    LET s1 == [s EXCEPT !.ops = Append(@, retry_operation)] IN
    attempt(s1, Len(s1.ops), in)

(* onopen without the _closed test.                                       *)
onopen_noguard(s, o, in) ==
    emit([s EXCEPT !.ops[o].wasConnected = TRUE], "open", in)

onopen(s, o, in) ==
    IF s.closed
    THEN s
    ELSE emit([s EXCEPT !.ops[o].wasConnected = TRUE], "open", in)

(* onclose without the _closed test.                                      *)
onclose_noguard(s, o, code, in) ==
    LET terminal ==
            emit(SetClosed(s, IF code = ServerClosedCode
                              THEN "code4000" ELSE "exhausted"),
                 "close", in)
    IN  IF code # ServerClosedCode
        THEN IF ~s.ops[o].wasConnected
             THEN IF CanRetry(s, o)
                  THEN operation_retry(s, o)
                  ELSE terminal
             ELSE LET s1 == operation_stop(s, o, in)
                      s2 == emit(s1, "disconnected", in)
                  IN  _setWebSocket(s2, in)
        ELSE terminal

(* onclose without the `return` after a successful operation.retry().     *)
onclose_noreturn(s, o, code, in) ==
    IF s.closed
    THEN s
    ELSE LET terminal(s0) ==
                 emit(SetClosed(s0, IF code = ServerClosedCode
                                    THEN "code4000" ELSE "exhausted"),
                      "close", in)
         IN  IF code # ServerClosedCode
             THEN IF ~s.ops[o].wasConnected
                  THEN terminal(operation_retry(s, o))
                  ELSE LET s1 == operation_stop(s, o, in)
                           s2 == emit(s1, "disconnected", in)
                       IN  _setWebSocket(s2, in)
             ELSE terminal(s)

(* onclose that starts from scratch when the retry budget is exhausted.   *)
onclose_restart_when_exhausted(s, o, code, in) ==
    IF s.closed
    THEN s
    ELSE LET terminal ==
                 emit(SetClosed(s, IF code = ServerClosedCode
                                   THEN "code4000" ELSE "exhausted"),
                      "close", in)
         IN  IF code # ServerClosedCode
             THEN IF ~s.ops[o].wasConnected
                  THEN IF CanRetry(s, o)
                       THEN operation_retry(s, o)
                       ELSE _setWebSocket(s, in)
                  ELSE LET s1 == operation_stop(s, o, in)
                           s2 == emit(s1, "disconnected", in)
                       IN  _setWebSocket(s2, in)
             ELSE terminal

(* onclose that tests the close code only for a never-connected session.  *)
onclose_code_after_connected(s, o, code, in) ==
    IF s.closed
    THEN s
    ELSE LET terminal ==
                 emit(SetClosed(s, IF code = ServerClosedCode
                                   THEN "code4000" ELSE "exhausted"),
                      "close", in)
         IN  IF s.ops[o].wasConnected
             THEN LET s1 == operation_stop(s, o, in)
                      s2 == emit(s1, "disconnected", in)
                  IN  _setWebSocket(s2, in)
             ELSE IF code # ServerClosedCode /\ CanRetry(s, o)
                  THEN operation_retry(s, o)
                  ELSE terminal

(* onclose without the wasConnected test: every non-terminal close is     *)
(* announced as a disconnection and restarts from scratch.                *)
onclose_always_restart(s, o, code, in) ==
    IF s.closed
    THEN s
    ELSE IF code # ServerClosedCode
         THEN LET s1 == operation_stop(s, o, in)
                  s2 == emit(s1, "disconnected", in)
              IN  _setWebSocket(s2, in)
         ELSE emit(SetClosed(s, "code4000"), "close", in)

(* onclose that keeps reconnecting after a drop: when the timeouts of an  *)
(* operation created by a restart are used up, it restarts from scratch   *)
(* instead of closing.                                                    *)
onclose_reconnect_forever(s, o, code, in) ==
    LET terminal ==
            emit(SetClosed(s, IF code = ServerClosedCode
                              THEN "code4000" ELSE "exhausted"),
                 "close", in)
    IN  IF s.closed
        THEN s
        ELSE IF code # ServerClosedCode
             THEN IF ~s.ops[o].wasConnected
                  THEN IF CanRetry(s, o)
                       THEN operation_retry(s, o)
                       ELSE IF o > 1
                            THEN _setWebSocket(operation_stop(s, o, in), in)
                            ELSE terminal
                  ELSE LET s1 == operation_stop(s, o, in)
                           s2 == emit(s1, "disconnected", in)
                       IN  _setWebSocket(s2, in)
             ELSE terminal

onclose(s, o, code, in) ==
    IF s.closed
    THEN s
    ELSE LET terminal ==
                 emit(SetClosed(s, IF code = ServerClosedCode
                                   THEN "code4000" ELSE "exhausted"),
                      "close", in)
         IN  IF code # ServerClosedCode
             THEN IF ~s.ops[o].wasConnected
                  THEN IF CanRetry(s, o)
                       THEN operation_retry(s, o)
                       ELSE terminal
                  ELSE LET s1 == operation_stop(s, o, in)
                           s2 == emit(s1, "disconnected", in)
                       IN  _setWebSocket(s2, in)
             ELSE terminal

(* onerror treating the socket's error as the end of the transport.       *)
onerror_closes(s, o, in) ==
    IF s.closed
    THEN s
    ELSE emit(SetClosed(Effect(s, "log:error"), "exhausted"), "close", in)

onerror(s, o, in) ==
    IF s.closed
    THEN s
    ELSE Effect(s, "log:error")

(* onmessage without the listenerCount('message') test.                   *)
onmessage_nolistenertest(s, o, decodes, count, in) ==
    IF s.closed
    THEN s
    ELSE IF ~decodes
         THEN s
         ELSE emit(s, "message", in)

onmessage(s, o, decodes, count, in) ==
    IF s.closed
    THEN s
    ELSE IF ~decodes
         THEN s
         ELSE IF count = 0
              THEN Effect(s, "log:error")
              ELSE emit(s, "message", in)

(* send() without the _closed test.                                       *)
send_noguard(s, throws) ==
    IF throws
    THEN Effect(Effect(Effect(s, "ws.send:throw"), "log:error"),
                "reject:error")
    ELSE Effect(Effect(s, "ws.send"), "resolve")

(* send() whose catch block logs the error and resolves.                  *)
send_swallow_error(s, throws) ==
    IF s.closed
    THEN Effect(s, "reject:transport closed")
    ELSE IF throws
         THEN Effect(Effect(Effect(s, "ws.send:throw"), "log:error"),
                     "resolve")
         ELSE Effect(Effect(s, "ws.send"), "resolve")

(* send(message): JSON.stringify and the socket's send() are inside the   *)
(* try; `throws` says whether one of them throws.  "ws.send" is the frame *)
(* accepted by the current socket.                                        *)
send(s, throws) ==
    IF s.closed
    THEN Effect(s, "reject:transport closed")
    ELSE IF throws
         THEN Effect(Effect(Effect(s, "ws.send:throw"), "log:error"),
                     "reject:error")
         ELSE Effect(Effect(s, "ws.send"), "resolve")

(* ------------------------------ actions ------------------------------- *)
Range(f) == {f[k] : k \in 1..Len(f)}

(* The inputs a handler can read, the others FALSE.                       *)
InputsOf(reads) ==
    {in \in Inputs : /\ in.re => "re" \in reads
                     /\ in.throws => "throws" \in reads
                     /\ in.cancels => "cancels" \in reads}

(* An input the handler did not read is taken as FALSE.                   *)
InputsRead(s, in) ==
    /\ in.re => "listener:close()" \in Range(s.fx)
    /\ in.throws => "ws.close:throw" \in Range(s.fx)
    /\ in.cancels => "clearTimeout" \in Range(s.fx)

Commit(s) ==
    /\ closed' = s.closed
    /\ closedBy' = s.closedBy
    /\ ws' = s.ws
    /\ sockets' = s.sockets
    /\ ops' = s.ops
    /\ emitted' = s.emitted
    /\ fx' = s.fx

Fresh == [State EXCEPT !.fx = <<>>]

NoCall ==
    [name |-> "none", sock |-> 0, op |-> 0, code |-> 0, throws |-> FALSE,
     decodes |-> FALSE, count |-> 0]

(* The state after `new WebSocketTransport(url, options)`.                *)
Init ==
    /\ retries \in 0..MaxRetries
    /\ closed = FALSE
    /\ closedBy = "none"
    /\ ws = 1
    /\ sockets = <<[op |-> 1, rs |-> "connecting", attached |-> TRUE]>>
    /\ ops = <<retry_operation>>
    /\ emitted = [e \in Lifecycle |-> 0]
    /\ fx = <<"new:ws">>
    /\ call = [NoCall EXCEPT !.name = "constructor"]
    /\ stale = 0

(* transport.close() called by the application.                           *)
Close ==
    \E in \in InputsOf({"re", "throws"}) :
        /\ \E s \in {close(Fresh, in)} :
               /\ InputsRead(s, in)
               /\ Commit(s)
        /\ call' = [NoCall EXCEPT !.name = "close"]
        /\ UNCHANGED <<stale, retries>>

(* transport.send(message) called by the application.  A W3CWebSocket's  *)
(* send() throws unless the socket is open; JSON.stringify may throw too. *)
Send ==
    \E throws \in BOOLEAN :
        /\ sockets[ws].rs # "open" => throws
        /\ Commit(send(Fresh, throws))
        /\ call' = [NoCall EXCEPT !.name = "send", !.throws = throws]
        /\ UNCHANGED <<stale, retries>>

(* What a W3CWebSocket does not do: report open a second time or after   *)
(* close() was called on it, or report anything after its close event.    *)
Conforms(rs, ev) ==
    CASE ev = "open" -> rs = "connecting"
      [] OTHER -> rs # "closed"

ReadyStateAfter(rs, ev) ==
    CASE ev = "close" -> "closed"
      [] ev = "open" /\ rs = "connecting" -> "open"
      [] OTHER -> rs

(* The callback socket i has for event ev, applied; a socket whose        *)
(* callbacks close() replaced by null runs nothing.                       *)
Deliver(s, i, ev, code, decodes, count, in) ==
    LET o == s.sockets[i].op IN
    IF ~s.sockets[i].attached
    THEN s
    ELSE CASE ev = "open" -> onopen(s, o, in)
           [] ev = "close" -> onclose(s, o, code, in)
           [] ev = "error" -> onerror(s, o, in)
           [] ev = "message" -> onmessage(s, o, decodes, count, in)

CallName ==
    [ev \in {"open", "close", "error", "message"} |->
        CASE ev = "open" -> "onopen"
          [] ev = "close" -> "onclose"
          [] ev = "error" -> "onerror"
          [] ev = "message" -> "onmessage"]

(* Socket i reports event ev.  For a message event, `decodes` is whether  *)
(* Message.parse(event.data) returns a message and `count` is             *)
(* this.listenerCount('message') at that moment: the application adds and *)
(* removes listeners between events.  Inputs the handler does not read   *)
(* are taken at one value: the listener count of a payload that does not  *)
(* decode is 0, and a message event of a closed transport has a payload   *)
(* that decodes and a listener.                                           *)
SocketEvent(i, ev) ==
    \E code \in (IF ev = "close" THEN Codes ELSE {0}),
       decodes \in (IF ev = "message" THEN BOOLEAN ELSE {FALSE}),
       count \in (IF ev = "message" THEN 0..1 ELSE {0}),
       in \in InputsOf(CASE ev = "error" -> {}
                          [] ev = "close" -> {"re", "throws", "cancels"}
                          [] OTHER -> {"re", "throws"}) :
        LET rs == sockets[i].rs
            s0 == [Fresh EXCEPT !.sockets[i].rs = ReadyStateAfter(rs, ev)]
        IN  /\ stale' = IF Conforms(rs, ev) THEN stale ELSE stale + 1
            /\ stale' <= MaxStale
            /\ decodes \/ count = 0
            /\ (ev = "message" /\ closed) => (decodes /\ count = 1)
            /\ \E s \in {Deliver(s0, i, ev, code, decodes, count, in)} :
                   /\ Len(s.sockets) <= MaxSockets
                   /\ InputsRead(s, in)
                   /\ Commit(s)
            /\ call' = [NoCall EXCEPT !.name = CallName[ev], !.sock = i,
                                      !.op = sockets[i].op, !.code = code,
                                      !.decodes = decodes, !.count = count]
            /\ UNCHANGED retries

OnOpen == \E i \in 1..Len(sockets) : SocketEvent(i, "open")
OnClose == \E i \in 1..Len(sockets) : SocketEvent(i, "close")
OnError == \E i \in 1..Len(sockets) : SocketEvent(i, "error")
OnMessage == \E i \in 1..Len(sockets) : SocketEvent(i, "message")

(* A timer set by operation.retry() fires: the operation counts the       *)
(* attempt and runs the attempt function.                                 *)
TimerFire ==
    \E o \in 1..Len(ops), last \in BOOLEAN, in \in InputsOf({"cancels"}) :
        /\ IF last
           THEN ops[o].lastPending
           ELSE ops[o].timers > (IF ops[o].lastPending THEN 1 ELSE 0)
        /\ LET s0 == [Fresh EXCEPT
                         !.ops[o].timers = @ - 1,
                         !.ops[o].lastPending = IF last THEN FALSE ELSE @]
           IN  \E s \in {attempt(s0, o, in)} :
                   /\ Len(s.sockets) <= MaxSockets
                   /\ InputsRead(s, in)
                   /\ Commit(s)
        /\ call' = [NoCall EXCEPT !.name = "timer", !.op = o]
        /\ UNCHANGED <<stale, retries>>

Next ==
    \/ Close
    \/ Send
    \/ OnOpen
    \/ OnClose
    \/ OnError
    \/ OnMessage
    \/ TimerFire

Spec == Init /\ [][Next]_vars

(* ------------------------------ properties ---------------------------- *)
SocketCalls == {"onopen", "onclose", "onerror", "onmessage"}

(* The transport state a handler can change; a socket's readyState is the *)
(* socket's own.                                                          *)
Handlers(ss) == [i \in DOMAIN ss |-> [op |-> ss[i].op, attached |-> ss[i].attached]]

TransportUnchanged ==
    /\ UNCHANGED <<closed, closedBy, ws, ops, emitted>>
    /\ Handlers(sockets') = Handlers(sockets)

(* C1: the public `close` event is emitted at most once in the            *)
(* transport's lifetime, and once `closed` is true it stays true,         *)
(* whichever path closed it.                                              *)
C1_CloseOnceAndForAll ==
    [][(closed => closed') /\ emitted'["close"] <= 1]_vars

(* A socket whose callbacks are still set reports close to a transport    *)
(* that is already closed.                                                *)
C1_Witness ==
    /\ closed
    /\ emitted["close"] = 1
    /\ call.name = "onclose"
    /\ sockets[call.sock].attached
    /\ fx = <<>>

(* C2: while `closed` is true each of the four socket callbacks, of any   *)
(* socket ever created, emits nothing and leaves closed, _ws,             *)
(* wasConnected and the retry operations unchanged.                       *)
C2_CallbacksNoOpWhenClosed ==
    [][(closed /\ call'.name \in SocketCalls)
          => (fx' = <<>> /\ TransportUnchanged)]_vars

C2_Witness ==
    /\ closed
    /\ call.name = "onopen"
    /\ sockets[call.sock].attached
    /\ sockets[call.sock].rs = "closed"
    /\ fx = <<>>

(* C3: close() is idempotent: a close() call leaves the transport closed, *)
(* and a close() call on a closed transport emits nothing, does not touch *)
(* the socket and changes no state.                                       *)
C3_CloseIdempotent ==
    [][call'.name = "close"
          => /\ closed'
             /\ closed => (fx' = <<>> /\ sockets' = sockets
                                      /\ TransportUnchanged)]_vars

C3_Witness ==
    /\ call.name = "close"
    /\ closed
    /\ closedBy = "close()"
    /\ fx = <<>>

(* C4: close() on a transport that is not closed sets `closed` and emits  *)
(* `close` before it detaches the current socket's callbacks, and         *)
(* detaches them before it requests the socket's close(); once closed, no *)
(* public event is emitted any more, whatever a socket reports.           *)
Emitted(f) == {e \in Events : EmitFx[e] \in Range(f)}

CloseOrder(f) ==
    /\ Len(f) >= 4
    /\ f[1] = "closed=true"
    /\ f[2] = "emit:close"
    /\ f[Len(f) - (IF f[Len(f)] = "log:error" THEN 2 ELSE 1)] = "detach"
    /\ \/ f[Len(f)] = "ws.close"
       \/ f[Len(f) - 1] = "ws.close:throw" /\ f[Len(f)] = "log:error"

C4_CloseOrderAndSilence ==
    [][/\ (~closed /\ call'.name = "close")
           => (closed' /\ CloseOrder(fx') /\ ~sockets'[ws].attached)
       /\ closed => (emitted' = emitted /\ Emitted(fx') = {})]_vars

(* The socket that close() detached reports its close afterwards.         *)
C4_Witness ==
    /\ closedBy = "close()"
    /\ call.name = "onclose"
    /\ call.sock = ws
    /\ ~sockets[ws].attached
    /\ fx = <<>>
    /\ emitted["close"] = 1

(* C5: a socket close event with code 4000 delivered while the transport  *)
(* is not closed closes the transport, emits exactly one `close` and no   *)
(* `disconnected`, and no socket is created then or later, whatever       *)
(* wasConnected and the remaining retry budget are.                       *)
C5_ServerCloseIsTerminal ==
    [][/\ (~closed /\ call'.name = "onclose"
               /\ call'.code = ServerClosedCode)
           => /\ closed'
              /\ emitted' = [emitted EXCEPT !["close"] = @ + 1]
              /\ Len(sockets') = Len(sockets)
       /\ closedBy = "code4000" => Len(sockets') = Len(sockets)]_vars

(* Code 4000 on a session that had opened, with the full retry budget.    *)
C5_Witness ==
    /\ closedBy = "code4000"
    /\ call.name = "onclose"
    /\ call.code = ServerClosedCode
    /\ retries > 0
    /\ ops[sockets[call.sock].op].wasConnected
    /\ ops[sockets[call.sock].op].timeouts = retries
    /\ emitted["close"] = 1
    /\ emitted["disconnected"] = 0

(* C6: a socket close event with a code other than 4000, delivered while  *)
(* the transport is not closed, the session never opened and the retry    *)
(* budget is not exhausted, schedules exactly one further attempt, leaves *)
(* `closed` false and emits neither `close` nor `disconnected`.           *)
C6_FailedAttemptIsRetried ==
    [][LET o == sockets[call'.sock].op IN
       (/\ ~closed
        /\ call'.name = "onclose"
        /\ call'.code # ServerClosedCode
        /\ ~ops[o].wasConnected
        /\ ops[o].timeouts > 0)
           => /\ ~closed'
              /\ emitted' = emitted
              /\ Len(sockets') = Len(sockets)
              /\ ws' = ws
              /\ ops' = [ops EXCEPT ![o].timeouts = @ - 1,
                                    ![o].timers = @ + 1,
                                    ![o].lastPending = TRUE]
              /\ fx' = <<"setTimeout">>]_vars

C6_Witness ==
    /\ ~closed
    /\ call.name = "onclose"
    /\ call.code # ServerClosedCode
    /\ fx = <<"setTimeout">>
    /\ ops[sockets[call.sock].op].timers = 1
    /\ emitted["close"] = 0
    /\ emitted["disconnected"] = 0

(* C7: while no socket has opened, every socket reports at most one close *)
(* event, none with code 4000, and close() is not called, the transport   *)
(* creates at most retries+1 sockets in one retry operation and emits no  *)
(* `disconnected`; it is closed exactly when socket number retries+1 has  *)
(* reported its close, with exactly one `close` emitted and no attempt    *)
(* pending.                                                               *)
NeverOpened ==
    /\ stale = 0
    /\ emitted["open"] = 0
    /\ \A o \in 1..Len(ops) : ~ops[o].wasConnected
    /\ \A i \in 1..Len(sockets) : sockets[i].rs \in {"connecting", "closed"}
    /\ closedBy \in {"none", "exhausted"}

C7_ExhaustedBudgetCloses ==
    NeverOpened =>
        /\ Len(ops) = 1
        /\ Len(sockets) <= retries + 1
        /\ emitted["disconnected"] = 0
        /\ emitted["close"] = (IF closed THEN 1 ELSE 0)
        /\ closed <=> (/\ Len(sockets) = retries + 1
                       /\ sockets[Len(sockets)].rs = "closed")
        /\ closed => ops[1].timers = 0

C7_Witness ==
    /\ NeverOpened
    /\ retries = MaxRetries
    /\ closedBy = "exhausted"
    /\ Len(sockets) = retries + 1
    /\ call.name = "onclose"
    /\ call.sock = Len(sockets)
    /\ emitted["close"] = 1

C9_SendWhenClosedRejects ==
    [][(closed /\ call'.name = "send")
          => /\ fx' = <<"reject:transport closed">>
             /\ sockets' = sockets
             /\ TransportUnchanged]_vars

C9_Witness ==
    /\ closed
    /\ call.name = "send"
    /\ fx = <<"reject:transport closed">>

(* C10: when send() is called on a transport that is not closed and the   *)
(* socket's send() throws, the error is logged and the call rejects, no   *)
(* state changes; a message is handed to a socket only by the send() call *)
(* that resolves.                                                         *)
C10_SendFailureIsNotQueued ==
    [][/\ (~closed /\ call'.name = "send" /\ call'.throws)
           => /\ fx' = <<"ws.send:throw", "log:error", "reject:error">>
              /\ sockets' = sockets
              /\ TransportUnchanged
       /\ "ws.send" \in Range(fx')
           => /\ call'.name = "send" /\ ~call'.throws /\ ~closed
              /\ fx' = <<"ws.send", "resolve">>]_vars

(* send() during a backoff window: the current socket has closed and the  *)
(* retry timer has not fired.                                             *)
C10_Witness ==
    /\ ~closed
    /\ call.name = "send"
    /\ call.throws
    /\ sockets[ws].rs = "closed"
    /\ ops[sockets[ws].op].timers = 1
    /\ fx = <<"ws.send:throw", "log:error", "reject:error">>

(* C11: a message event of a socket leads to a public `message` emission  *)
(* exactly when the transport is not closed, the payload decodes and at   *)
(* least one `message` listener is registered at that moment, and then to *)
(* one emission; a payload that does not decode is never emitted; a       *)
(* message that arrives with no listener is dropped: no other step, of a  *)
(* later message event or of anything else, emits it.                     *)
Times(f, e) == Cardinality({k \in 1..Len(f) : f[k] = e})

SocketCreated == Len(sockets') > Len(sockets)

C12_NoSocketWhenClosed ==
    [][/\ SocketCreated => (~closed /\ ~closed')
       /\ (closed /\ call'.name = "timer")
           => /\ fx'[1] = "stop"
              /\ "new:ws" \notin Range(fx')
              /\ ops'[call'.op].stopped
              /\ ops'[call'.op].timeouts = 0
              /\ sockets' = sockets
              /\ UNCHANGED <<closed, closedBy, ws, emitted>>]_vars

(* The retry timer of the first operation fires after close() was called  *)
(* during the backoff.                                                    *)
C12_Witness ==
    /\ closedBy = "close()"
    /\ call.name = "timer"
    /\ fx[1] = "stop"
    /\ ops[call.op].stopped
    /\ Len(sockets) = 1
    /\ sockets[1].rs = "closed"
    /\ stale = 0

(* C13: close() may be called from inside a listener of `open`,           *)
(* `message`, `disconnected` or `close`: the step ends with `closed`      *)
(* true and with exactly one `close` emitted in the transport's lifetime, *)
(* no socket is created after the listener's call, in that step or later; *)
(* in particular the restart that follows a `disconnected` listener's     *)
(* close() creates no socket.                                             *)
ListenerCloses(f) == "listener:close()" \in Range(f)

After(f, e) == {f[k] : k \in {j \in 1..Len(f) : \E i \in 1..(j - 1) : f[i] = e}}

C13_ReentrantCloseIsSafe ==
    [][/\ ListenerCloses(fx')
           => /\ closed'
              /\ emitted'["close"] = 1
              /\ Times(fx', EmitFx["close"]) <= 1
              /\ "new:ws" \notin After(fx', "listener:close()")
              /\ Emitted(fx') \cap {"open", "message", "disconnected", "close"}
                     # {}
              /\ EmitFx["disconnected"] \in Range(fx')
                     => (~SocketCreated /\ ws' = ws)
       /\ closed => ~SocketCreated]_vars

(* A `disconnected` listener called close(): the restart created the new  *)
(* retry operation, whose attempt stopped it without creating a socket.   *)
C13_Witness ==
    /\ ListenerCloses(fx)
    /\ EmitFx["disconnected"] \in Range(fx)
    /\ call.name = "onclose"
    /\ closedBy = "close()"
    /\ emitted["close"] = 1
    /\ Len(ops) = 2
    /\ ops[2].stopped
    /\ Len(sockets) = 1

(* C14: close() never fails observably: an error thrown while the socket  *)
(* is torn down is caught and logged and close() returns normally, with   *)
(* `closed` already true and the single `close` event already emitted;    *)
(* no call, from the application or from a listener, ends in an exception.*)
Caught(f) ==
    \A k \in 1..Len(f) :
        f[k] = "ws.close:throw"
            => /\ k < Len(f)
               /\ f[k + 1] = "log:error"
               /\ \E i, j \in 1..(k - 1) :
                      /\ i < j
                      /\ f[i] = "closed=true"
                      /\ f[j] = EmitFx["close"]

C14_CloseNeverThrows ==
    [][/\ "throw" \notin Range(fx')
       /\ Caught(fx')
       /\ "ws.close:throw" \in Range(fx')
           => /\ ~closed /\ closed'
              /\ closedBy' = "close()"
              /\ emitted["close"] = 0 /\ emitted'["close"] = 1
              /\ ~sockets'[ws'].attached]_vars

(* close() called by the application on a connected transport; the        *)
(* socket's close() throws.                                               *)
C14_Witness ==
    /\ call.name = "close"
    /\ closed
    /\ emitted["close"] = 1
    /\ sockets[ws].rs = "open"
    /\ fx = <<"closed=true", EmitFx["close"], "detach", "ws.close:throw",
              "log:error">>

(* C15: in every state at most one retry operation is active, that is,    *)
(* has a socket that has not reported close or a pending retry timer; and *)
(* when a restart creates a retry operation, the one before it has been   *)
(* stopped and has no pending timer left.                                 *)
Active(o) ==
    \/ ops[o].timers > 0
    \/ \E i \in 1..Len(sockets) : sockets[i].op = o /\ sockets[i].rs # "closed"

AtMostOneActive == Cardinality({o \in 1..Len(ops) : Active(o)}) <= 1

C15_OneActiveOperation ==
    [][/\ AtMostOneActive'
       /\ Len(ops') > Len(ops)
           => /\ ops'[Len(ops)].stopped
              /\ ops'[Len(ops)].timers = 0]_vars

(* C16: once a socket is no longer the current one, an open, close, error *)
(* or message event it reports emits no public event, consumes no retry   *)
(* timeout, starts no attempt and no restart, and leaves `closed` and     *)
(* wasConnected as they are, also while the transport is not closed.      *)
C16_SupersededSocketIsInert ==
    [][(call'.name \in SocketCalls /\ call'.sock # ws)
          => /\ Emitted(fx') = {}
             /\ {"setTimeout", "new:ws", "stop"} \cap Range(fx') = {}
             /\ TransportUnchanged]_vars

(* C17: an error event of a socket while the transport is not closed is   *)
(* logged and nothing else: no public event, no change of `closed`, of    *)
(* the current socket, of wasConnected or of a retry operation, no timer  *)
(* and no socket.                                                         *)
C17_ErrorOnlyLogs ==
    [][(~closed /\ call'.name = "onerror")
          => /\ fx' = <<"log:error">>
             /\ TransportUnchanged
             /\ ~SocketCreated]_vars

(* The connecting socket of the first attempt reports an error, as a      *)
(* W3CWebSocket does before the close event of a failed connection.       *)
C17_Witness ==
    /\ ~closed
    /\ call.name = "onerror"
    /\ sockets[call.sock].rs = "connecting"
    /\ call.sock = ws
    /\ fx = <<"log:error">>
    /\ emitted = [e \in Lifecycle |-> 0]

(* C18: as long as every socket has reported open at most once and        *)
(* nothing after its close event, `open` and `disconnected` alternate     *)
(* strictly, starting with `open`: `disconnected` is emitted only when    *)
(* one more `open` than `disconnected` has been emitted, `open` only when *)
(* as many of each have been emitted, and no step emits both.             *)
C18_OpenDisconnectedAlternate ==
    [][stale' = 0
          => /\ EmitFx["open"] \in Range(fx')
                 => /\ emitted["open"] = emitted["disconnected"]
                    /\ emitted'["open"] = emitted["open"] + 1
                    /\ emitted'["disconnected"] = emitted["disconnected"]
             /\ EmitFx["disconnected"] \in Range(fx')
                 => /\ emitted["open"] = emitted["disconnected"] + 1
                    /\ emitted'["disconnected"] = emitted["disconnected"] + 1
                    /\ emitted'["open"] = emitted["open"]
             /\ {EmitFx["open"], EmitFx["disconnected"]} \cap Range(fx') = {}
                 => /\ emitted'["open"] = emitted["open"]
                    /\ emitted'["disconnected"] = emitted["disconnected"]]_vars

(* Two sessions were established and both dropped.                        *)
C18_Witness ==
    /\ stale = 0
    /\ emitted["open"] = 2
    /\ emitted["disconnected"] = 2
    /\ EmitFx["disconnected"] \in Range(fx)
    /\ Len(sockets) = 3

(* C19: wasConnected belongs to the retry operation and is shared by its  *)
(* attempts; whenever a socket is created the wasConnected of its         *)
(* operation is false, so that the flag the current socket's callbacks    *)
(* read says whether the current socket has reported open: as long as    *)
(* the transport is not closed it is false while that socket is           *)
(* connecting and true while it is open.                                  *)
FlagOfCurrent == ops[sockets[ws].op].wasConnected

C19_FlagIsPerSession ==
    [][/\ SocketCreated => ~ops'[sockets'[Len(sockets')].op].wasConnected
       /\ (~closed' /\ sockets'[ws'].rs = "connecting") => ~FlagOfCurrent'
       /\ (~closed' /\ sockets'[ws'].rs = "open") => FlagOfCurrent']_vars

(* C20: reconnection after a drop is bounded: after `disconnected`, when  *)
(* the fresh retry operation has made retries + 1 attempts and each       *)
(* socket closed with a non-terminal code without opening, the close of   *)
(* the last one closes the transport for good and emits `close`; the      *)
(* earlier ones set a retry timer.  A transport that was connected thus   *)
(* becomes closed without close() and without a code-4000 close.          *)
SocketsOf(o) == {i \in 1..Len(sockets) : sockets[i].op = o}

FailedAttemptAfterDrop ==
    /\ stale' = 0
    /\ ~closed
    /\ call'.name = "onclose"
    /\ call'.code # ServerClosedCode
    /\ emitted["disconnected"] >= 1
    /\ ~ops[call'.op].wasConnected

C20_ReconnectionIsBounded ==
    [][FailedAttemptAfterDrop
          => IF Cardinality(SocketsOf(call'.op)) = retries + 1
             THEN /\ closed'
                  /\ closedBy' = "exhausted"
                  /\ emitted'["close"] = 1
                  /\ fx'[1] = "closed=true"
                  /\ fx'[2] = EmitFx["close"]
                  /\ ~SocketCreated
                  /\ \A o \in 1..Len(ops') : ops'[o].timers = 0
             ELSE /\ fx' = <<"setTimeout">>
                  /\ ~closed'
                  /\ ops'[call'.op].timeouts = ops[call'.op].timeouts - 1]_vars

(* A transport that was connected and dropped; both attempts of the fresh *)
(* operation failed and the second close closed the transport.            *)
C20_Witness ==
    /\ stale = 0
    /\ retries = 1
    /\ closedBy = "exhausted"
    /\ emitted["open"] = 1
    /\ emitted["disconnected"] = 1
    /\ emitted["close"] = 1
    /\ call.name = "onclose"
    /\ call.op = 2
    /\ Cardinality(SocketsOf(2)) = 2
    /\ ~ops[2].wasConnected

====
